---- MODULE Spec2Model ----
(***************************************************************************)
(* elmjs-inspector: attribution of the size of a minified elm.js bundle to *)
(* the top-level definitions of the unminified program.                    *)
(*                                                                         *)
(* The module models `analyse` / `withTerser` / `process` with the nested  *)
(* helpers indexToLineColumn, compressIndex and compressRange, in the two  *)
(* versions the repository holds: the one with the Left/Right boundary and *)
(* the filter pass (Spec), and src/analyse.ts, the one the command line    *)
(* entry point src/index.ts imports (SpecCli).                             *)
(*                                                                         *)
(* JavaScript values that may be null are tuples of length 0 (null) or 1.  *)
(* Texts are sequences of one-character strings.  The parser and the       *)
(* minifier are external: their results (the extracted definitions, the    *)
(* minified text, the source map) are the inputs Init draws.               *)
(***************************************************************************)
EXTENDS Integers, Sequences, FiniteSets, TLC

VARIABLES
  pc,             \* position of the run
  options,        \* analyse: options ({terser})
  code,           \* analyse: the unminified text
  definitions,    \* what yieldElmJsDefinitionInfos yields for `code`
  minifiedElm,    \* withTerser: terser's result (code, source map)
  compressedCode, \* process: parameter (null or a text)
  consumer,       \* process: parameter (null or a source map consumer)
  compressedSize, \* process: const compressedSize
  compressedSplat,\* process: const compressedSplat
  infos,          \* process: let infos
  tr,             \* process: indexCache, with the history of compressIndex
                  \* calls and the diagnostics logged by compressRange
  out,            \* Console.log lines of the report
  rangeSum,       \* process: const rangeSum
  thrown          \* null, or the error the run ended with

vars == <<pc, options, code, definitions, minifiedElm, compressedCode,
          consumer, compressedSize, compressedSplat, infos, tr, out, rangeSum,
          thrown>>

----------------------------------------------------------------------------
(* Bounds *)

CodeLen == 5
GenLen == 3
MaxDefs == 2

----------------------------------------------------------------------------
(* JavaScript values *)

Null == <<>>
Some(x) == <<x>>
\* ToNumber of a number or null: null converts to 0
ToNumber(v) == IF v = Null THEN 0 ELSE v[1]

NL == "\n"

\* const x = v; F(x): v is evaluated once
Let(v, F(_)) == CHOOSE r \in {F(x) : x \in {v}} : TRUE

\* String.prototype.split('\n')
RECURSIVE Split(_)
Split(text) ==
  IF \E i \in 1..Len(text) : text[i] = NL
    THEN LET i == CHOOSE j \in 1..Len(text) :
                    text[j] = NL /\ \A k \in 1..(j - 1) : text[k] # NL
         IN <<SubSeq(text, 1, i - 1)>> \o Split(SubSeq(text, i + 1, Len(text)))
    ELSE <<text>>

\* String.prototype.slice(0, index)
Slice(text, index) ==
  LET to == IF index < 0
              THEN (IF Len(text) + index < 0 THEN 0 ELSE Len(text) + index)
              ELSE (IF index > Len(text) THEN Len(text) ELSE index)
  IN SubSeq(text, 1, to)

\* String.prototype.indexOf(ch) on a name
IndexOf(name, ch) ==
  IF \E i \in 1..Len(name) : name[i] = ch
    THEN (CHOOSE i \in 1..Len(name) :
            name[i] = ch /\ \A k \in 1..(i - 1) : name[k] # ch) - 1
    ELSE -1

rangeSize(range) == ToNumber(range[2]) - ToNumber(range[1])

\* percentage(value, of), in thousandths of a percent (toFixed(3))
percentage(value, of) == ((2 * value * 100000) + of) \div (2 * of)

----------------------------------------------------------------------------
(* The position translator: process's nested helpers.  T is the translator *)
(* state [cache, calls, diag]; every helper returns the state it leaves.   *)

EmptyCache == [k \in {} |-> Null]

NewTranslator == [cache |-> EmptyCache, calls |-> {}, diag |-> <<>>]

indexToLineColumn(index, right) ==
  LET idx == IF right THEN index - 1 ELSE index
      beforeSlice == Slice(code, idx)
      splat == Split(beforeSlice)
  IN [line |-> Len(splat), column |-> Len(splat[Len(splat)])]

\* consumer.generatedPositionFor({source: '0', line, column})
generatedPositionFor(lc) == consumer[1][<<lc.line, lc.column>>]

\* lines 170-177: the generated line/column as an offset of the minified text
RECURSIVE LinesBefore(_)
LinesBefore(lineNumber) ==
  IF lineNumber < 1 THEN 0
  ELSE LinesBefore(lineNumber - 1) + Len(compressedSplat[lineNumber]) + 1

generatedOffset(mapped) ==
  IF 1 < ToNumber(mapped.line)
    THEN Some(ToNumber(mapped.column) + LinesBefore(ToNumber(mapped.line) - 1))
    ELSE mapped.column

\* lines 163-177: what compressIndex computes on a cache miss
translate(index, right) ==
  generatedOffset(generatedPositionFor(indexToLineColumn(index, right)))

Called(T, index, right, value) ==
  T.calls \cup {[index |-> index, right |-> right, value |-> value]}

\* compressIndex without the lookup in indexCache
compressIndexUncached(T, index, right) ==
  IF consumer = Null
    THEN [value |-> Some(index),
          T |-> [T EXCEPT !.calls = Called(T, index, right, Some(index))]]
  ELSE Let(translate(index, right), LAMBDA result :
         [value |-> result,
          T |-> [T EXCEPT !.cache = (index :> result) @@ T.cache,
                          !.calls = Called(T, index, right, result)]])

compressIndex(T, index, right) ==
  IF consumer = Null
    THEN [value |-> Some(index),
          T |-> [T EXCEPT !.calls = Called(T, index, right, Some(index))]]
  ELSE IF index \in DOMAIN T.cache
    THEN [value |-> T.cache[index],
          T |-> [T EXCEPT !.calls = Called(T, index, right, T.cache[index])]]
  ELSE Let(translate(index, right), LAMBDA result :
         [value |-> result,
          T |-> [T EXCEPT !.cache = (index :> result) @@ T.cache,
                          !.calls = Called(T, index, right, result)]])

\* compressRange without the test for a negative range
compressRangeUnchecked(T, info) ==
  Let(compressIndex(T, info.range[1], FALSE), LAMBDA s :
  Let(compressIndex(s.T, info.range[2], TRUE), LAMBDA e :
    [result |-> <<s.value, e.value>>, T |-> e.T]))

\* returns [result, T]; result is null or the pair of translated offsets
compressRange(T, info) ==
  Let(compressIndex(T, info.range[1], FALSE), LAMBDA s :
  Let(compressIndex(s.T, info.range[2], TRUE), LAMBDA e :
  Let(<<s.value, e.value>>, LAMBDA result :
    IF rangeSize(result) < 0
      THEN IF indexToLineColumn(info.range[1], FALSE).line
                = indexToLineColumn(info.range[2], TRUE).line
             THEN [result |-> Null, T |-> e.T]
             ELSE [result |-> Null,
                   T |-> [e.T EXCEPT !.diag = Append(@, info.name)]]
      ELSE [result |-> result, T |-> e.T])))

----------------------------------------------------------------------------
(* The passes of process over infos.  rangeSize(compressRange(item))       *)
(* throws a TypeError when compressRange returns null.                     *)

\* lines 231-234: infos.filter(...); compressRange runs before the name test
RECURSIVE filterInfos(_, _)
filterInfos(T, list) ==
  IF list = <<>> THEN [infos |-> <<>>, T |-> T]
  ELSE Let(compressRange(T, Head(list)), LAMBDA range :
       Let(filterInfos(range.T, Tail(list)), LAMBDA rest :
         IF IndexOf(Head(list).name, "$") >= 0 /\ range.result # Null
           THEN [infos |-> <<Head(list)>> \o rest.infos, T |-> rest.T]
           ELSE rest))

\* the sizes rangeSize(compressRange(item)) of the items of list, in order,
\* up to the first item for which compressRange returns null
RECURSIVE rangeSizes(_, _)
rangeSizes(T, list) ==
  IF list = <<>> THEN [sizes |-> <<>>, T |-> T, threw |-> FALSE]
  ELSE Let(compressRange(T, Head(list)), LAMBDA range :
         IF range.result = Null
           THEN [sizes |-> <<>>, T |-> range.T, threw |-> TRUE]
           ELSE Let(rangeSizes(range.T, Tail(list)), LAMBDA rest :
                  [sizes |-> <<rangeSize(range.result)>> \o rest.sizes,
                   T |-> rest.T, threw |-> rest.threw]))

\* the comparator with its operands exchanged: ascending
compareFnAscending(T, a, b) ==
  Let(compressRange(T, a), LAMBDA compressedRangeA :
  Let(compressRange(compressedRangeA.T, b), LAMBDA compressedRangeB :
    rangeSize(compressedRangeA.result) - rangeSize(compressedRangeB.result)))

\* lines 237-242: the comparator of infos.sort
compareFn(T, a, b) ==
  Let(compressRange(T, a), LAMBDA compressedRangeA :
  Let(compressRange(compressedRangeA.T, b), LAMBDA compressedRangeB :
    rangeSize(compressedRangeB.result) - rangeSize(compressedRangeA.result)))

\* infos.sort(compareFn).  Array.prototype.sort is stable: the items in the
\* one order in which no item has to follow a later one and items that
\* compare equal keep their order
sortInfos(T, list) ==
  LET n == Len(list)
      order == CHOOSE p \in [1..n -> 1..n] :
                 /\ \A i, j \in 1..n : i # j => p[i] # p[j]
                 /\ \A i, j \in 1..n : i < j =>
                      \/ compareFn(T, list[p[i]], list[p[j]]) < 0
                      \/ /\ compareFn(T, list[p[i]], list[p[j]]) = 0
                         /\ p[i] < p[j]
  IN [i \in 1..n |-> list[order[i]]]

RECURSIVE Sum(_)
Sum(sizes) == IF sizes = <<>> THEN 0 ELSE Head(sizes) + Sum(Tail(sizes))

\* lines 243-246: one line per item
reportLines(sizes, list) ==
  [i \in 1..Len(sizes) |->
     [percentage |-> percentage(sizes[i], compressedSize),
      name |-> list[i].name]]

\* lines 247-255: the final line
summaryLine(sizes) ==
  [rangeSum |-> Sum(sizes), total |-> compressedSize,
   analized |-> percentage(Sum(sizes), compressedSize)]

TypeError == Some("TypeError")

----------------------------------------------------------------------------
(* Inputs *)

\* the unminified text: two lines, "cc\nc..."
Code == [i \in 1..CodeLen |-> IF i = 3 THEN NL ELSE "c"]
\* a minified text: two lines, "c\nc..."
GenCode == [i \in 1..GenLen |-> IF i = 2 THEN NL ELSE "c"]

Names == {<<"F">>, <<"$", "f">>}

Ranges == {r \in (0..CodeLen) \X (0..CodeLen) : r[1] < r[2]}

\* definitions are statements or declarators of one statement list: their
\* ranges follow each other without overlap
DefinitionLists ==
  UNION {{[i \in 1..n |-> [name |-> names[i], range |-> ranges[i]]] :
            names \in [1..n -> Names],
            ranges \in {rs \in [1..n -> Ranges] :
                          \A i \in 1..(n - 1) : rs[i][2] <= rs[i + 1][1]}} :
         n \in 0..MaxDefs}

LineColumn(text, index) ==
  LET splat == Split(Slice(text, index))
  IN <<Len(splat), Len(splat[Len(splat)])>>

\* the positions of the unminified text that a run looks up for defs
StartPoints(defs) == {LineColumn(Code, defs[i].range[1]) : i \in 1..Len(defs)}
RightPoints(defs) ==
  {LineColumn(Code, defs[i].range[2] - 1) : i \in 1..Len(defs)}
EndPoints(defs) == {LineColumn(Code, defs[i].range[2]) : i \in 1..Len(defs)}

\* the generated positions a source map can name: the characters of text
Positions(text) ==
  LET splat == Split(text)
  IN UNION {{[line |-> Some(l), column |-> Some(c)] :
               c \in 0..(Len(splat[l]) - 1)} : l \in 1..Len(splat)}

\* generatedPositionFor finds no mapping
Unmapped == [line |-> Null, column |-> Null]

Identity(points) ==
  [p \in points |-> [line |-> Some(p[1]), column |-> Some(p[2])]]

\* what terser.minify can give for the text: no code, a shorter text with any
\* source map, or the text unchanged with the one-to-one source map.  A
\* source map is given on points, the positions a run looks up: what it says
\* of other positions has no effect on the run.
MinifyResults(points) ==
  {[code |-> <<>>, map |-> Identity({})]}
  \cup {[code |-> GenCode, map |-> m] :
          m \in [points -> Positions(GenCode) \cup {Unmapped}]}
  \cup {[code |-> Code, map |-> Identity(points)]}

InitRun(defs, minified) ==
  /\ pc = "analyse"
  /\ code = Code
  /\ definitions = defs
  /\ minifiedElm = minified
  /\ compressedCode = Null
  /\ consumer = Null
  /\ compressedSize = 0
  /\ compressedSplat = <<>>
  /\ infos = <<>>
  /\ tr = NewTranslator
  /\ out = <<>>
  /\ rangeSum = 0
  /\ thrown = Null

Init ==
  \E defs \in DefinitionLists :
    \/ /\ options = [terser |-> FALSE]
       /\ InitRun(defs, Null)
    \/ /\ options = [terser |-> TRUE]
       /\ \E m \in MinifyResults(StartPoints(defs) \cup RightPoints(defs)) :
            InitRun(defs, Some(m))

----------------------------------------------------------------------------
(* analyse, withTerser and process *)

Throw(error) ==
  /\ pc' = "threw"
  /\ thrown' = error

\* analyse (lines 258-271) with withTerser (lines 111-124)
Analyse ==
  /\ pc = "analyse"
  /\ IF options.terser
       THEN IF minifiedElm[1].code # <<>>
              THEN /\ compressedCode' = Some(minifiedElm[1].code)
                   /\ consumer' = Some(minifiedElm[1].map)
                   /\ pc' = "process"
                   /\ UNCHANGED thrown
              ELSE /\ Throw(Some("Error running terser."))
                   /\ UNCHANGED <<compressedCode, consumer>>
       ELSE /\ pc' = "process"
            /\ UNCHANGED <<compressedCode, consumer, thrown>>
  /\ UNCHANGED <<options, code, definitions, minifiedElm, compressedSize,
                 compressedSplat, infos, tr, out, rangeSum>>

\* process, lines 132-145 (src/analyse.ts: lines 123-136).  Both texts are
\* taken to parse (a SyntaxError of Esprima.parseScript ends the run before
\* any of the steps below).
ParseThen(next) ==
  /\ pc = "process"
  /\ IF consumer = Null
       THEN \* consumer.computeColumnSpans() on null
            /\ Throw(TypeError)
            /\ UNCHANGED <<compressedCode, compressedSize, compressedSplat,
                           infos, tr>>
       ELSE LET text == IF compressedCode = Null \/ compressedCode[1] = <<>>
                          THEN code ELSE compressedCode[1]
            IN /\ compressedCode' = Some(text)
               \* parsedCompressed.range is the extent [0, length] of the text
               /\ compressedSize' = rangeSize(<<Some(0), Some(Len(text))>>)
               /\ infos' = definitions
               /\ compressedSplat' = Split(text)
               /\ tr' = NewTranslator
               /\ pc' = next
               /\ UNCHANGED thrown
  /\ UNCHANGED <<options, code, definitions, minifiedElm, consumer, out,
                 rangeSum>>

Parse == ParseThen("filter")

\* process, lines 231-234
Filter ==
  /\ pc = "filter"
  /\ \E pass \in {filterInfos(tr, infos)} :
       /\ infos' = pass.infos
       /\ tr' = pass.T
  /\ pc' = "sort"
  /\ UNCHANGED <<options, code, definitions, minifiedElm, compressedCode,
                 consumer, compressedSize, compressedSplat, out, rangeSum,
                 thrown>>

\* process, lines 236-242; the comparator is not called for fewer than two
\* items
Sort ==
  /\ pc = "sort"
  /\ IF Len(infos) < 2
       THEN /\ pc' = "print"
            /\ UNCHANGED <<infos, tr, thrown>>
       ELSE \E pass \in {rangeSizes(tr, infos)} :
              IF pass.threw
                THEN /\ Throw(TypeError)
                     /\ tr' = pass.T
                     /\ UNCHANGED infos
                ELSE /\ infos' = sortInfos(pass.T, infos)
                     /\ tr' = pass.T
                     /\ pc' = "print"
                     /\ UNCHANGED thrown
  /\ UNCHANGED <<options, code, definitions, minifiedElm, compressedCode,
                 consumer, compressedSize, compressedSplat, out, rangeSum>>

\* process, lines 243-246
Report ==
  /\ pc = "print"
  /\ \E pass \in {rangeSizes(tr, infos)} :
        /\ out' = reportLines(pass.sizes, infos)
        /\ tr' = pass.T
        /\ IF pass.threw
             THEN Throw(TypeError)
             ELSE pc' = "sum" /\ UNCHANGED thrown
  /\ UNCHANGED <<options, code, definitions, minifiedElm, compressedCode,
                 consumer, compressedSize, compressedSplat, infos, rangeSum>>

\* process, lines 247-255
Summary ==
  /\ pc = "sum"
  /\ \E pass \in {rangeSizes(tr, infos)} :
        /\ tr' = pass.T
        /\ IF pass.threw
             THEN Throw(TypeError) /\ UNCHANGED <<rangeSum, out>>
             ELSE /\ rangeSum' = Sum(pass.sizes)
                  /\ out' = Append(out, summaryLine(pass.sizes))
                  /\ pc' = "done"
                  /\ UNCHANGED thrown
  /\ UNCHANGED <<options, code, definitions, minifiedElm, compressedCode,
                 consumer, compressedSize, compressedSplat, infos>>

Next ==
  \/ Analyse
  \/ Parse
  \/ Filter
  \/ Sort
  \/ Report
  \/ Summary

Spec == Init /\ [][Next]_vars

----------------------------------------------------------------------------
(* Properties of a run of process *)

Relevant(info) == IndexOf(info.name, "$") >= 0

\* the filter pass is over
Filtered == pc \in {"sort", "print", "sum", "done"}
\* the sort is over
Sorted == pc \in {"print", "sum", "done"}

\* the translated range of info as the run now computes it
Translated(info) == compressRange(tr, info).result
SizeOf(info) == rangeSize(Translated(info))

Items(list) == {list[i] : i \in 1..Len(list)}
\* place of a definition in the order the extractor yielded
Place(info) == CHOOSE i \in 1..Len(definitions) : definitions[i] = info

Select(list, Test(_)) ==
  LET F[i \in 0..Len(list)] ==
        IF i = 0 THEN <<>>
        ELSE IF Test(list[i]) THEN Append(F[i - 1], list[i]) ELSE F[i - 1]
  IN F[Len(list)]

\* the lines process prints for the definitions defs, from a fresh indexCache
reportOf(defs) ==
  Let(filterInfos(NewTranslator, defs), LAMBDA f :
  Let(IF Len(f.infos) < 2 THEN f.infos
      ELSE sortInfos(f.T, f.infos), LAMBDA sorted :
  Let(rangeSizes(f.T, sorted), LAMBDA pass :
    Append(reportLines(pass.sizes, sorted), summaryLine(pass.sizes)))))

\* C1: Coverage bound.  When the run is done, 0 <= rangeSum <= compressedSize
\* and the percentage of the final line lies between 0% and 100%.
CoverageBound ==
  pc = "done" =>
    /\ 0 <= rangeSum
    /\ rangeSum <= compressedSize
    /\ out[Len(out)].analized \in 0..100000

\* C2: Non-negativity.  After the filter pass every retained definition has a
\* translated range (not null) of size >= 0, a definition whose translated
\* range is negative is not retained, and every printed percentage and the
\* range sum are >= 0.
NonNegativity ==
  /\ Filtered =>
       /\ \A i \in 1..Len(infos) :
            Translated(infos[i]) # Null /\ SizeOf(infos[i]) >= 0
       /\ \A i \in 1..Len(definitions) :
            Translated(definitions[i]) = Null => definitions[i] \notin Items(infos)
  /\ pc \in {"sum", "done"} =>
       \A i \in 1..Len(infos) : out[i].percentage >= 0
  /\ pc = "done" => rangeSum >= 0

\* a run that dropped a relevant definition for its negative range and kept
\* another one of positive size
NonNegativityWitness ==
  /\ pc = "done"
  /\ \E i \in 1..Len(definitions) :
       Relevant(definitions[i]) /\ Translated(definitions[i]) = Null
  /\ \E i \in 1..Len(infos) : SizeOf(infos[i]) > 0

\* C3: Unmapped discard.  A definition one of whose endpoints the source map
\* does not map (null line and column) gets null from compressRange and is
\* not retained.
UnmappedDiscard ==
  Filtered =>
    \A i \in 1..Len(definitions) :
      LET info == definitions[i]
      IN (\/ generatedPositionFor(indexToLineColumn(info.range[1], FALSE))
               = Unmapped
          \/ generatedPositionFor(indexToLineColumn(info.range[2], TRUE))
               = Unmapped)
         => Translated(info) = Null /\ info \notin Items(infos)

\* C4: Ranked order.  After the sort, infos holds exactly the retained
\* definitions, by descending size, those of equal size in the order the
\* extractor yielded them; the printed lines follow that order.
RankedOrder ==
  /\ Sorted =>
       /\ Items(infos) =
            {d \in Items(definitions) : Relevant(d) /\ Translated(d) # Null}
       /\ Cardinality(Items(infos)) = Len(infos)
       /\ \A i \in 1..(Len(infos) - 1) :
            \/ SizeOf(infos[i]) > SizeOf(infos[i + 1])
            \/ /\ SizeOf(infos[i]) = SizeOf(infos[i + 1])
               /\ Place(infos[i]) < Place(infos[i + 1])
  /\ pc \in {"sum", "done"} =>
       /\ Len(out) >= Len(infos)
       /\ \A i \in 1..Len(infos) :
            out[i] = [percentage |-> percentage(SizeOf(infos[i]), compressedSize),
                      name |-> infos[i].name]

\* a finished run in which the sort moved a later, larger definition to the
\* front
RankedOrderWitness ==
  /\ pc = "done"
  /\ Len(infos) >= 2
  /\ Place(infos[1]) > Place(infos[2])
  /\ SizeOf(infos[1]) > SizeOf(infos[2])

\* the source map is one-to-one and the minified text is the unminified text
IdentityMapping ==
  /\ consumer # Null
  /\ compressedCode = Some(code)
  /\ \A p \in DOMAIN consumer[1] :
       consumer[1][p] = [line |-> Some(p[1]), column |-> Some(p[2])]

\* C5: Identity-mapping size.  Under the identity mapping a retained
\* definition with source range [start, end) has size end - start, and a
\* single definition spanning the whole text is printed with 100.000%.
IdentitySize ==
  (Filtered /\ IdentityMapping) =>
    /\ \A i \in 1..Len(infos) :
         SizeOf(infos[i]) = infos[i].range[2] - infos[i].range[1]
    /\ (/\ pc = "done"
        /\ Len(definitions) = 1
        /\ Relevant(definitions[1])
        /\ definitions[1].range = <<0, Len(code)>>)
       => (Len(out) = 2 /\ out[1].percentage = 100000)

\* the boundaries two adjacent definitions share
SharedBoundaries ==
  {definitions[i].range[2] : i \in 1..(Len(definitions) - 1)} \cap
  {definitions[i].range[1] : i \in 2..Len(definitions)}

\* C6: Boundary mode correctness.  For the offset k two adjacent definitions
\* share, at any point of a run and in either order of the two calls,
\* compressIndex(k, right = true) <= compressIndex(k, right = false); the
\* same holds of the calls the run has made.
BoundaryMode ==
  /\ pc \in {"filter", "sort", "print", "sum", "done"} =>
       \A k \in SharedBoundaries :
         /\ LET end == compressIndex(tr, k, TRUE)
                start == compressIndex(end.T, k, FALSE)
            IN ToNumber(end.value) <= ToNumber(start.value)
         /\ LET start == compressIndex(tr, k, FALSE)
                end == compressIndex(start.T, k, TRUE)
            IN ToNumber(end.value) <= ToNumber(start.value)
  /\ \A c1, c2 \in tr.calls :
       (c1.index = c2.index /\ c1.right /\ ~c2.right)
         => ToNumber(c1.value) <= ToNumber(c2.value)

\* a run that translated a shared boundary in both modes where the source
\* map puts the last character of the first definition behind the first
\* character of the second
BoundaryModeWitness ==
  /\ Filtered
  /\ \E k \in SharedBoundaries :
       /\ ToNumber(translate(k, TRUE)) > ToNumber(translate(k, FALSE))
       /\ \E c1, c2 \in tr.calls :
            c1.index = k /\ c2.index = k /\ c1.right /\ ~c2.right

\* C8: Optional minified input.  Without the terser option the run does not
\* throw; when done, translation was the identity and the total is the size
\* of the unminified text.
OptionalMinified ==
  ~options.terser =>
    /\ pc # "threw"
    /\ pc = "done" =>
         /\ compressedSize = Len(code)
         /\ \A c \in tr.calls : c.value = Some(c.index)

\* C9: Memoization transparency.  Every call compressIndex(offset, right) of
\* a run returned what the computation without the cache gives for that
\* offset and that boundary.
MemoTransparency ==
  consumer # Null =>
    \A c \in tr.calls : c.value = translate(c.index, c.right)

\* C10: Relevance filtering before attribution.  A definition whose name has
\* no '$' is never translated: indexCache holds only endpoints of relevant
\* definitions, no diagnostic names an irrelevant definition, and the report
\* is the report of the run on the relevant definitions alone.
RelevanceFirst ==
  Filtered =>
    /\ \A k \in DOMAIN tr.cache :
         \E i \in 1..Len(definitions) :
           Relevant(definitions[i]) /\ k \in Items(definitions[i].range)
    /\ \A i \in 1..Len(tr.diag) :
         \E j \in 1..Len(definitions) :
           Relevant(definitions[j]) /\ definitions[j].name = tr.diag[i]
    /\ pc = "done" => out = reportOf(Select(definitions, Relevant))

----------------------------------------------------------------------------
(* src/analyse.ts, the module src/index.ts imports: no boundary mode, no   *)
(* filter pass, and compressRange throws on a negative range.              *)

indexToLineColumnCli(index) ==
  LET beforeSlice == Slice(code, index)
      splat == Split(beforeSlice)
  IN [line |-> Len(splat), column |-> Len(splat[Len(splat)])]

compressIndexCli(T, index, left) ==
  IF consumer = Null
    THEN [value |-> Some(index),
          T |-> [T EXCEPT !.calls = Called(T, index, ~left, Some(index))]]
  ELSE IF index \in DOMAIN T.cache
    THEN [value |-> T.cache[index],
          T |-> [T EXCEPT !.calls = Called(T, index, ~left, T.cache[index])]]
  ELSE Let(generatedOffset(generatedPositionFor(indexToLineColumnCli(index))),
           LAMBDA result :
         [value |-> result,
          T |-> [T EXCEPT !.cache = (index :> result) @@ T.cache,
                          !.calls = Called(T, index, ~left, result)]])

\* returns [result, T, threw]: threw when it ends in
\* throw new Error('Invalid negative range')
compressRangeCli(T, info) ==
  Let(compressIndexCli(T, info.range[1], TRUE), LAMBDA s :
  Let(compressIndexCli(s.T, info.range[2], FALSE), LAMBDA e :
  Let(<<s.value, e.value>>, LAMBDA result :
    IF rangeSize(result) < 0
      THEN [result |-> Null, threw |-> TRUE,
            T |-> [e.T EXCEPT !.diag = Append(@, info.name)]]
      ELSE [result |-> result, threw |-> FALSE, T |-> e.T])))

RECURSIVE rangeSizesCli(_, _)
rangeSizesCli(T, list) ==
  IF list = <<>> THEN [sizes |-> <<>>, T |-> T, threw |-> FALSE]
  ELSE Let(compressRangeCli(T, Head(list)), LAMBDA range :
         IF range.threw
           THEN [sizes |-> <<>>, T |-> range.T, threw |-> TRUE]
           ELSE Let(rangeSizesCli(range.T, Tail(list)), LAMBDA rest :
                  [sizes |-> <<rangeSize(range.result)>> \o rest.sizes,
                   T |-> rest.T, threw |-> rest.threw]))

compareFnCli(T, a, b) ==
  Let(compressRangeCli(T, a), LAMBDA compressedRangeA :
  Let(compressRangeCli(compressedRangeA.T, b), LAMBDA compressedRangeB :
    rangeSize(compressedRangeB.result) - rangeSize(compressedRangeA.result)))

sortInfosCli(T, list) ==
  LET n == Len(list)
      order == CHOOSE p \in [1..n -> 1..n] :
                 /\ \A i, j \in 1..n : i # j => p[i] # p[j]
                 /\ \A i, j \in 1..n : i < j =>
                      \/ compareFnCli(T, list[p[i]], list[p[j]]) < 0
                      \/ /\ compareFnCli(T, list[p[i]], list[p[j]]) = 0
                         /\ p[i] < p[j]
  IN [i \in 1..n |-> list[order[i]]]

InvalidNegativeRange == Some("Invalid negative range")

InitCli ==
  \E defs \in DefinitionLists :
    /\ options = [terser |-> TRUE]
    /\ \E m \in MinifyResults(StartPoints(defs) \cup EndPoints(defs)) :
         InitRun(defs, Some(m))

ParseCli == ParseThen("sort")

\* lines 212-218.  Which pairs the sort hands to the comparator, and in which
\* order, is the engine's choice; with two items or more every item is
\* compared at least once, so each is first translated in some order.
SortCli ==
  /\ pc = "sort"
  /\ IF Len(infos) < 2
       THEN /\ pc' = "print"
            /\ UNCHANGED <<infos, tr, thrown>>
       ELSE \E first \in {p \in [1..Len(infos) -> 1..Len(infos)] :
                            \A i, j \in 1..Len(infos) : i # j => p[i] # p[j]} :
            \E pass \in {rangeSizesCli(tr,
                           [i \in 1..Len(infos) |-> infos[first[i]]])} :
              IF pass.threw
                THEN /\ Throw(InvalidNegativeRange)
                     /\ tr' = pass.T
                     /\ UNCHANGED infos
                ELSE /\ infos' = sortInfosCli(pass.T, infos)
                     /\ tr' = pass.T
                     /\ pc' = "print"
                     /\ UNCHANGED thrown
  /\ UNCHANGED <<options, code, definitions, minifiedElm, compressedCode,
                 consumer, compressedSize, compressedSplat, out, rangeSum>>

\* lines 219-222
ReportCli ==
  /\ pc = "print"
  /\ \E pass \in {rangeSizesCli(tr, infos)} :
        /\ out' = reportLines(pass.sizes, infos)
        /\ tr' = pass.T
        /\ IF pass.threw
             THEN Throw(InvalidNegativeRange)
             ELSE pc' = "sum" /\ UNCHANGED thrown
  /\ UNCHANGED <<options, code, definitions, minifiedElm, compressedCode,
                 consumer, compressedSize, compressedSplat, infos, rangeSum>>

\* lines 223-231
SummaryCli ==
  /\ pc = "sum"
  /\ \E pass \in {rangeSizesCli(tr, infos)} :
        /\ tr' = pass.T
        /\ IF pass.threw
             THEN Throw(InvalidNegativeRange) /\ UNCHANGED <<rangeSum, out>>
             ELSE /\ rangeSum' = Sum(pass.sizes)
                  /\ out' = Append(out, summaryLine(pass.sizes))
                  /\ pc' = "done"
                  /\ UNCHANGED thrown
  /\ UNCHANGED <<options, code, definitions, minifiedElm, compressedCode,
                 consumer, compressedSize, compressedSplat, infos>>

NextCli ==
  \/ Analyse
  \/ ParseCli
  \/ SortCli
  \/ ReportCli
  \/ SummaryCli

SpecCli == InitCli /\ [][NextCli]_vars

\* C7: Per-definition isolation.  Once minification has succeeded and
\* process has its source map, the run never ends in an error: a negative
\* range or an unmapped endpoint only drops the definition.
Isolation == consumer # Null => pc # "threw"

====
